---- MODULE Spec2Model ----
(***************************************************************************)
(* createStorage (src/lib/storage/factory.ts): a promise facade over the   *)
(* callback-based chrome.storage.local API.                                *)
(*                                                                         *)
(* The state:                                                              *)
(*   store      chrome.storage.local: the value under each key             *)
(*   ctx        whether the extension context is still valid               *)
(*   calls      the promises handed out by get/set/reset/remove/           *)
(*              getWithDefault, each with what became of it                *)
(*   watchers   the subscriptions made by watch, in the order made         *)
(*   listeners  the listener list of chrome.storage.local.onChanged        *)
(*   log        the console.error lines written so far                     *)
(*   lastOp     per key, the latest write that took effect (history)       *)
(*                                                                         *)
(* Platform behaviour the code is written against:                         *)
(*  - a chrome.* call made while the extension context is gone throws      *)
(*    synchronously, and an invalidated context receives no callback and   *)
(*    no event any more;                                                   *)
(*  - an operation that fails asynchronously invokes its callback with no  *)
(*    arguments while chrome.runtime.lastError is set, and leaves the      *)
(*    stored data as it was;                                               *)
(*  - onChanged carries the keys whose value really changed and is handed  *)
(*    to the listeners registered when it is dispatched.                   *)
(***************************************************************************)
EXTENDS Integers, Sequences, FiniteSets, Bags, TLC

\* ---------------------------------------------------------------- bounds
MaxCalls == 2
MaxWatch == 2

\* ---------------------------------------------------------------- values
Undef == "undefined"
Void == "void"
StoreError == "StoreError"
Values == {"light", "dark"}
Keys == {"theme", "lang"}
Accessors == {"A", "B"}

\* The StorageConfig each accessor was created with (createStorage(config)).
\* A and B are two accessors of the same key; "lang" is a key of the same store
\* that belongs to somebody else.
Config(a) ==
  IF a = "A" THEN [key |-> "theme", defaultValue |-> "light"]
             ELSE [key |-> "theme", defaultValue |-> "dark"]

VARIABLES store, ctx, calls, watchers, listeners, log, lastOp

vars == <<store, ctx, calls, watchers, listeners, log, lastOp>>

\* ------------------------------------------------- the code's expressions

\* get, line 16: resolve(result[config.key]); a key the store does not hold
\* reads as undefined.
GetResult(a, result) == result[Config(a).key]

\* set, line 30: the entries object { [config.key]: value }.
SetEntriesSwapped(a, v) == [k \in {Config(a).key} |-> Config(a).defaultValue]
SetEntries(a, v) == [k \in {Config(a).key} |-> v]

\* reset, line 85: the value handed to this.set.
ResetValueOther(a) == CHOOSE v \in Values : v # Config(a).defaultValue
ResetValue(a) == Config(a).defaultValue

\* remove, line 93: the key handed to chrome.storage.local.remove.
RemoveKeysAll(a) == Keys
RemoveKeys(a) == {Config(a).key}

\* getWithDefault, line 76.
WithDefault(a, value) == IF value = Undef THEN Config(a).defaultValue ELSE value

\* watch, lines 46-53: the listener.  got is the arguments its callback has
\* been invoked with while the latest change event was dispatched.
Invoke(got, value) == Append(got, value)

ListenerNoFilter(a, changes, got) ==
  Invoke(got, IF Config(a).key \in DOMAIN changes
              THEN changes[Config(a).key].newValue ELSE Undef)
Listener(a, changes, got) ==
  IF Config(a).key \in DOMAIN changes
  THEN Invoke(got, changes[Config(a).key].newValue)
  ELSE got

\* watch, line 57: addListener(listener); every watch call makes a new closure.
AddListener(ls, w) == ls \cup {w}

\* unregister, line 61: removeListener(listener).
RemoveListenerNone(ls, w) == ls
RemoveListenerOfAccessor(ls, w) ==
  {x \in ls : watchers[x].acc # watchers[w].acc}
RemoveListener(ls, w) == ls \ {w}

\* ------------------------------------------------------ platform helpers
StoreWrite(s, entries) ==
  [k \in Keys |-> IF k \in DOMAIN entries THEN entries[k] ELSE s[k]]

StoreDelete(s, ks) == [k \in Keys |-> IF k \in ks THEN Undef ELSE s[k]]

Changes(old, new) ==
  [k \in {x \in Keys : old[x] # new[x]} |->
     [newValue |-> new[k]]]

NewCall(op, a, arg) ==
  [op |-> op, acc |-> a, arg |-> arg, status |-> "pending", fired |-> FALSE,
   lastError |-> FALSE, uncaught |-> FALSE, result |-> Undef]

\* The executor threw: the Promise constructor turns it into a rejection.
Rejected(c) == [c EXCEPT !.status = "rejected", !.result = StoreError]

\* calls is the bag of the promises handed out; one of them changes.
Settle(c, d) == (calls (-) SetToBag({c})) (+) SetToBag({d})

LogLine(op, a) == [op |-> op, key |-> Config(a).key]

\* lastOp[k]: the latest write of key k that took effect (a history variable).
AccessorKeys == {Config(a).key : a \in Accessors}

NoOp == [kind |-> "none", acc |-> "-", value |-> Undef]

\* ------------------------------------------------------------------ Init
Init ==
  /\ store = [k \in Keys |-> Undef]
  /\ ctx = TRUE
  /\ calls = EmptyBag
  /\ watchers = << >>
  /\ listeners = {}
  /\ log = {}
  /\ lastOp = [k \in AccessorKeys |-> NoOp]

\* ----------------------------------------------------------- onChanged
\* A change of stored values is told to this context as one onChanged event,
\* handed to every listener registered at that moment; each listener is the
\* closure of lines 46-53.  An invalidated context is told nothing.
OnChanged(old, new) ==
  IF DOMAIN Changes(old, new) = {} \/ ~ctx THEN watchers
  ELSE [w \in DOMAIN watchers |->
          [watchers[w] EXCEPT !.got =
             IF w \in listeners
             THEN Listener(watchers[w].acc, Changes(old, new), << >>)
             ELSE << >>]]

\* --------------------------------------------------------------- get
\* lines 11-18: the promise of get() once chrome.storage.local.get has been
\* called.  A synchronous throw of the platform call happens inside the
\* executor, so the promise rejects and the catch of line 19 is never run.
GetIssued(op, a) ==
  IF ctx THEN NewCall(op, a, Undef) ELSE Rejected(NewCall(op, a, Undef))

\* lines 15-17: the callback.  With lastError set the callback has no
\* argument, result[config.key] throws inside the callback, nothing catches
\* it and resolve is never called.
GetFired(c, err) ==
  IF err
  THEN [c EXCEPT !.fired = TRUE, !.lastError = TRUE, !.uncaught = TRUE]
  ELSE [c EXCEPT !.fired = TRUE, !.status = "resolved",
                 !.result = GetResult(c.acc, store)]

CallGet(a) ==
  /\ calls' = calls (+) SetToBag({GetIssued("get", a)})
  /\ UNCHANGED <<store, ctx, watchers, listeners, log, lastOp>>

GetCallback(c, err) ==
  /\ ctx
  /\ BagIn(c, calls)
  /\ c.op = "get"
  /\ c.status = "pending"
  /\ ~c.fired
  /\ calls' = Settle(c, GetFired(c, err))
  /\ UNCHANGED <<store, ctx, watchers, listeners, log, lastOp>>

\* ---------------------------------------------------- getWithDefault
\* lines 73-81: await this.get(); a rejected get is caught, logged and
\* answered with the default; a get that never settles is awaited for ever.
AfterGet(g) ==
  IF g.status = "resolved" THEN [g EXCEPT !.result = WithDefault(g.acc, g.result)]
  ELSE IF g.status = "rejected"
  THEN [g EXCEPT !.status = "resolved", !.result = Config(g.acc).defaultValue]
  ELSE g

CallGetWithDefault(a) ==
  /\ calls' = calls (+) SetToBag({AfterGet(GetIssued("getWithDefault", a))})
  /\ log' = IF ctx THEN log ELSE log \cup {LogLine("getWithDefault", a)}
  /\ UNCHANGED <<store, ctx, watchers, listeners, lastOp>>

GetWithDefaultCallback(c, err) ==
  /\ ctx
  /\ BagIn(c, calls)
  /\ c.op = "getWithDefault"
  /\ c.status = "pending"
  /\ ~c.fired
  /\ calls' = Settle(c, AfterGet(GetFired(c, err)))
  /\ UNCHANGED <<store, ctx, watchers, listeners, log, lastOp>>

\* --------------------------------------------------------- set, reset
\* lines 26-42.  The callback of lines 30-36: with lastError set it logs and
\* throws inside the callback, so resolve is never called and nothing
\* rejects the promise; otherwise it resolves.
SetIssued(op, a, v) ==
  IF ctx THEN NewCall(op, a, v) ELSE Rejected(NewCall(op, a, v))

WriteFired(c, err) ==
  IF err
  THEN [c EXCEPT !.fired = TRUE, !.lastError = TRUE, !.uncaught = TRUE]
  ELSE [c EXCEPT !.fired = TRUE, !.status = "resolved", !.result = Void]

CallSet(a, v) ==
  /\ calls' = calls (+) SetToBag({SetIssued("set", a, v)})
  /\ UNCHANGED <<store, ctx, watchers, listeners, log, lastOp>>

\* lines 84-86: return this.set(config.defaultValue).
CallReset(a) ==
  /\ calls' = calls (+) SetToBag({SetIssued("reset", a, ResetValue(a))})
  /\ UNCHANGED <<store, ctx, watchers, listeners, log, lastOp>>

SetCallback(c, err) ==
  /\ ctx
  /\ BagIn(c, calls)
  /\ c.op \in {"set", "reset"}
  /\ c.status = "pending"
  /\ ~c.fired
  /\ LET new == IF err THEN store
                ELSE StoreWrite(store, SetEntries(c.acc, c.arg))
     IN /\ store' = new
        /\ watchers' = OnChanged(store, new)
        /\ lastOp' = IF err THEN lastOp
                     ELSE [k \in AccessorKeys |->
                             IF store[k] # new[k] \/ k = Config(c.acc).key
                             THEN [kind |-> c.op, acc |-> c.acc,
                                   value |-> c.arg]
                             ELSE lastOp[k]]
  /\ calls' = Settle(c, WriteFired(c, err))
  /\ log' = IF err THEN log \cup {LogLine("set", c.acc)} ELSE log
  /\ UNCHANGED <<ctx, listeners>>

\* ------------------------------------------------------------- remove
\* lines 89-105, the same shape as set.
CallRemove(a) ==
  /\ calls' = calls (+) SetToBag({SetIssued("remove", a, Undef)})
  /\ UNCHANGED <<store, ctx, watchers, listeners, log, lastOp>>

RemoveCallback(c, err) ==
  /\ ctx
  /\ BagIn(c, calls)
  /\ c.op = "remove"
  /\ c.status = "pending"
  /\ ~c.fired
  /\ LET new == IF err THEN store
                ELSE StoreDelete(store, RemoveKeys(c.acc))
     IN /\ store' = new
        /\ watchers' = OnChanged(store, new)
        /\ lastOp' = IF err THEN lastOp
                     ELSE [k \in AccessorKeys |->
                             IF store[k] # new[k] \/ k = Config(c.acc).key
                             THEN [kind |-> "remove", acc |-> c.acc,
                                   value |-> Undef]
                             ELSE lastOp[k]]
  /\ calls' = Settle(c, WriteFired(c, err))
  /\ log' = IF err THEN log \cup {LogLine("remove", c.acc)} ELSE log
  /\ UNCHANGED <<ctx, listeners>>

\* -------------------------------------------------------------- watch
\* lines 45-70.  addListener throwing is caught, logged and answered with a
\* no-op unregister (real = FALSE).
Watch(a) ==
  /\ watchers' = Append(watchers,
       [acc |-> a, real |-> ctx, unreg |-> "never", raised |-> FALSE,
        got |-> << >>])
  /\ listeners' = IF ctx THEN AddListener(listeners, Len(watchers) + 1)
                  ELSE listeners
  /\ log' = IF ctx THEN log ELSE log \cup {LogLine("watch", a)}
  /\ UNCHANGED <<store, ctx, calls, lastOp>>

\* How often an unregister function has been called: never, once, again.
Called(u) == IF u = "never" THEN "once" ELSE "again"

\* lines 59-64: whether an error thrown by removeListener leaves the closure;
\* the catch logs it and lets nothing out.
Escapes(threw) == FALSE

\* lines 58-65: the unregister closure.  removeListener throwing is caught
\* and logged; the closure of line 68 does nothing.
Unregister(w) ==
  /\ w \in DOMAIN watchers
  /\ watchers' = [watchers EXCEPT ![w].unreg = Called(@),
                                  ![w].raised = Escapes(watchers[w].real /\ ~ctx)]
  /\ listeners' = IF watchers[w].real /\ ctx THEN RemoveListener(listeners, w)
                  ELSE listeners
  /\ log' = IF watchers[w].real /\ ~ctx
            THEN log \cup {LogLine("unwatch", watchers[w].acc)} ELSE log
  /\ UNCHANGED <<store, ctx, calls, lastOp>>

\* ----------------------------------------------------------- platform
\* Another actor (another context, the options page) changes stored values.
ExternalChange(ks, v) ==
  /\ ks # {}
  /\ LET new == [k \in Keys |-> IF k \in ks THEN v ELSE store[k]]
     IN /\ new # store
        /\ store' = new
        /\ watchers' = OnChanged(store, new)
        /\ lastOp' = [k \in AccessorKeys |->
                        IF store[k] # new[k]
                        THEN [kind |-> "external", acc |-> "-", value |-> Undef]
                        ELSE lastOp[k]]
  /\ UNCHANGED <<ctx, calls, listeners, log>>

\* The extension context is invalidated (the extension is reloaded or
\* removed while this script lives on): from now on chrome.* calls throw.
Invalidate ==
  /\ ctx
  /\ ctx' = FALSE
  /\ UNCHANGED <<store, calls, watchers, listeners, log, lastOp>>

\* The calls of the accessors and the platform's answers to them.
NextStore ==
  \/ BagCardinality(calls) < MaxCalls /\ \E a \in Accessors : CallGet(a)
  \/ \E c \in BagToSet(calls), err \in BOOLEAN : GetCallback(c, err)
  \/ BagCardinality(calls) < MaxCalls /\ \E a \in Accessors : CallGetWithDefault(a)
  \/ \E c \in BagToSet(calls), err \in BOOLEAN : GetWithDefaultCallback(c, err)
  \/ BagCardinality(calls) < MaxCalls /\ \E a \in Accessors, v \in Values : CallSet(a, v)
  \/ BagCardinality(calls) < MaxCalls /\ \E a \in Accessors : CallReset(a)
  \/ \E c \in BagToSet(calls), err \in BOOLEAN : SetCallback(c, err)
  \/ BagCardinality(calls) < MaxCalls /\ \E a \in Accessors : CallRemove(a)
  \/ \E c \in BagToSet(calls), err \in BOOLEAN : RemoveCallback(c, err)
  \/ \E ks \in SUBSET Keys, v \in Values \cup {Undef} : ExternalChange(ks, v)
  \/ Invalidate

Spec == Init /\ [][NextStore]_vars

\* The subscriptions, and the change events they are told of.  Which actor
\* made a change (an accessor of this context, of another one, or anybody
\* else) is not told to a listener: ExternalChange stands for all of them.
NextWatch ==
  \/ Len(watchers) < MaxWatch /\ \E a \in Accessors : Watch(a)
  \/ \E w \in DOMAIN watchers : Unregister(w)
  \/ \E ks \in SUBSET Keys, v \in Values \cup {Undef} : ExternalChange(ks, v)
  \/ Invalidate

WatchSpec == Init /\ [][NextWatch]_vars

\* ======================================================================
\* Properties
\* ======================================================================
Promises == BagToSet(calls)

\* The promises that changed in this step: the ones a callback has just
\* settled (or left hanging), and the ones just handed out.
Touched == {d \in BagToSet(calls') : CopiesIn(d, calls') > CopiesIn(d, calls)}

KeyOf(c) == Config(c.acc).key

\* A get() that has just resolved.
GotNow == {d \in Touched : d.op = "get" /\ d.status = "resolved" /\ d.fired}

\* The change event of this step, and whether this context is told of it.
Event == Changes(store, store')
Told == ctx /\ DOMAIN Event # {}

\* A subscription that watch made and whose unregister was never called.
Registered(w) == watchers[w].real /\ watchers[w].unreg = "never"

\* C1: a set(value) whose write callback fires with the last-error channel
\* set has a promise that is rejected with that error (not resolved, not
\* pending).
C1_SetErrorRejects ==
  \A c \in Promises :
    c.op = "set" /\ c.fired /\ c.lastError
      => c.status = "rejected" /\ c.result = StoreError

\* The other half of C1: a failed write leaves every stored value as it was.
SetErrorKeepsStore ==
  [][\A d \in Touched : d.op \in {"set", "reset"} /\ d.lastError
        => store' = store]_vars

\* C2: a get() whose store read errors has a promise that is rejected with
\* the store error, and the error was logged with the key name.
C2_GetErrorRejects ==
  \A c \in Promises :
    c.op = "get" /\ c.fired /\ c.lastError
      => /\ c.status = "rejected"
         /\ c.result = StoreError
         /\ LogLine("get", c.acc) \in log

\* C3: getWithDefault() is never rejected and, once the store has answered
\* its read, is resolved: to a value that is not undefined, and to the
\* default when the read failed.
C3_GetWithDefaultResolves ==
  \A c \in Promises :
    c.op = "getWithDefault"
      => /\ c.status # "rejected"
         /\ (c.fired \/ c.lastError => c.status = "resolved")
         /\ (c.status = "resolved" => c.result \in Values)
         /\ (c.status = "resolved" /\ c.lastError
               => c.result = Config(c.acc).defaultValue)

\* C4: round trip.  When the latest write of a key that took effect is a
\* set(v) that resolved, a get() of that key by any accessor resolves to v.
C4_RoundTrip ==
  [][\A d \in GotNow :
        lastOp[KeyOf(d)].kind = "set" => d.result = lastOp[KeyOf(d)].value]_vars

C4_Witness ==
  \E d \in Promises :
    /\ d.op = "get" /\ d.acc = "B" /\ d.status = "resolved" /\ d.result = "light"
    /\ lastOp["theme"] = [kind |-> "set", acc |-> "A", value |-> "light"]
    /\ \E e \in Promises : e.op = "set" /\ e.acc = "A" /\ e.arg = "light"
                           /\ e.status = "resolved"

\* C7: a call whose store callback has fired has a settled promise
\* (resolved or rejected), whether or not the store reported an error.
C7_FiredMeansSettled ==
  \A c \in Promises : c.fired => c.status \in {"resolved", "rejected"}

\* C8: when the latest write of a key that took effect is a reset() that
\* resolved, a get() of that key resolves to the default value of the
\* accessor that was reset, and reset() hands that default to set.
C8_ResetGivesDefault ==
  [][/\ \A d \in GotNow :
          lastOp[KeyOf(d)].kind = "reset"
            => d.result = Config(lastOp[KeyOf(d)].acc).defaultValue
     /\ \A d \in Touched :
          d.op = "reset" /\ d.status = "resolved"
            => store'[KeyOf(d)] = Config(d.acc).defaultValue]_vars

C8_Witness ==
  \E d \in Promises :
    /\ d.op = "get" /\ d.acc = "A" /\ d.status = "resolved" /\ d.result = "dark"
    /\ lastOp["theme"] = [kind |-> "reset", acc |-> "B", value |-> "dark"]
    /\ \E e \in Promises : e.op = "reset" /\ e.acc = "B" /\ e.status = "resolved"

\* C9: a remove() that resolves leaves its key without a value and every
\* other key as it was, and when the latest write of a key that took effect
\* is a remove() that resolved, a get() of that key resolves to undefined.
C9_RemoveDeletes ==
  [][/\ \A d \in GotNow :
          lastOp[KeyOf(d)].kind = "remove" => d.result = Undef
     /\ \A d \in Touched :
          d.op = "remove" /\ d.status = "resolved"
            => /\ store'[KeyOf(d)] = Undef
               /\ \A k \in Keys \ {KeyOf(d)} : store'[k] = store[k]]_vars

C9_Witness ==
  \E d \in Promises :
    /\ d.op = "get" /\ d.status = "resolved" /\ d.result = Undef
    /\ lastOp["theme"].kind = "remove"
    /\ store["lang"] # Undef
    /\ \E e \in Promises : e.op = "remove" /\ e.status = "resolved"

\* C5: when a change event is dispatched, the callback of every registered
\* watcher is invoked exactly once, with the new value of the watcher's key,
\* if the event holds that key, and is not invoked at all if it does not.
C5_WatchOncePerChange ==
  [][Told =>
       \A w \in DOMAIN watchers :
         Registered(w) =>
           watchers'[w].got =
             IF Config(watchers[w].acc).key \in DOMAIN Event
             THEN <<Event[Config(watchers[w].acc).key].newValue>>
             ELSE << >>]_vars

C5_Witness ==
  /\ Len(watchers) = 2
  /\ \A w \in DOMAIN watchers : Registered(w) /\ watchers[w].got = <<"dark">>
  /\ store["theme"] = "dark"

\* C6: no call of an unregister function throws; a second or later call
\* changes neither the listener list nor anything else of the program; and
\* once unregister has been called, no dispatched change invokes the
\* callback.
C6_UnregisterIdempotent ==
  [][\A w \in DOMAIN watchers :
       /\ ~watchers'[w].raised
       /\ (watchers[w].unreg # "never" /\ Told => watchers'[w].got = << >>)
       /\ (watchers[w].unreg # "never" /\ Unregister(w)
             => /\ listeners' = listeners
                /\ store' = store
                /\ calls' = calls
                /\ \A x \in DOMAIN watchers :
                     watchers'[x].got = watchers[x].got)]_vars

C6_Witness ==
  \E w, x \in DOMAIN watchers :
    /\ watchers[w].real /\ watchers[w].unreg = "again"
    /\ watchers[w].got = << >>
    /\ Registered(x) /\ watchers[x].got = <<"light">>
    /\ w < x /\ ctx

\* C10: a watch call that subscribes adds one listener of its own and
\* touches no other; an unregister call removes its own listener and no
\* other; so a registered watcher stays in the listener list whatever the
\* other subscriptions do.
C10_IndependentSubscriptions ==
  [][/\ (Len(watchers') = Len(watchers) + 1 /\ ctx
           => /\ Len(watchers') \notin listeners
              /\ listeners' = listeners \cup {Len(watchers')})
     /\ (Len(watchers') = Len(watchers) + 1 /\ ~ctx => listeners' = listeners)
     /\ \A w \in DOMAIN watchers :
          watchers'[w].unreg # watchers[w].unreg
            => /\ listeners \ {w} \subseteq listeners'
               /\ listeners' \subseteq listeners
               /\ (ctx => w \notin listeners')
     /\ \A w \in DOMAIN watchers' :
          watchers'[w].real /\ watchers'[w].unreg = "never" => w \in listeners']_vars

C10_Witness ==
  /\ Len(watchers) = 2
  /\ watchers[1].acc = "A" /\ watchers[2].acc = "A"
  /\ watchers[1].unreg = "once" /\ watchers[1].real
  /\ Registered(2)
  /\ listeners = {2}
  /\ watchers[2].got = <<"dark">> /\ watchers[1].got = << >>
====
